---- MODULE Spec2Model ----
(***************************************************************************)
(* Calendar -> Reminders sync (local-meeting-reminder).                    *)
(*                                                                         *)
(* Two programs share one ledger file (synced_events.json) and one         *)
(* Reminders list: calendar_sync.py (the API variant) and                  *)
(* calendar_sync_ical.py (the feed variant).  A sync pass is one run of    *)
(* sync_calendar(); passes run one after the other.  Time is counted in    *)
(* minutes.  Text is a sequence of characters/tokens, so that the sink's   *)
(* "body contains event_id" test is a real substring test.                 *)
(***************************************************************************)
EXTENDS Integers, Sequences, FiniteSets, Bags, TLC

(* ---- program constants ---- *)
REMINDER_MINUTES_BEFORE == 3
SYNC_HOURS_AHEAD == 24
RETENTION_DAYS == 2

Horizon == SYNC_HOURS_AHEAD * 60
\* Variant of Retention: entries are kept for half the horizon only.
ShortRetention == Horizon \div 2
Retention == RETENTION_DAYS * 24 * 60

(* ---- bounds of the model ---- *)
MaxClock == 1
MaxBatch == 2

(* ---- text ---- *)
IsPrefixAt(s, t, k) ==
    \A j \in 1..Len(s) : t[k + j - 1] = s[j]

\* AppleScript's `body contains "<text>"`: s occurs in t as a substring.
Contains(t, s) ==
    \E k \in 1..(Len(t) - Len(s) + 1) : IsPrefixAt(s, t, k)

RECURSIVE str_replace(_, _, _)
\* s.replace(old, new) for a two-character `old`: the occurrences are
\* replaced from left to right, without overlap.
str_replace(s, old, new) ==
    IF Len(s) < 2 THEN s
    ELSE IF s[1] = old[1] /\ s[2] = old[2]
         THEN new \o str_replace(Tail(Tail(s)), old, new)
         ELSE <<s[1]>> \o str_replace(Tail(s), old, new)

\* summary.replace('\\,', ',').replace('\;', ';').replace('\\n', '\n')
ical_unescape(s) ==
    str_replace(str_replace(str_replace(s, <<"\\", ",">>, <<",">>),
                            <<"\\", ";">>, <<";">>),
                <<"\\", "n">>, <<"\n">>)

RECURSIVE ical_text(_)
\* How the feed writes a text value: a backslash before "\", ";" and ",",
\* and "\n" for a line break.
ical_text(s) ==
    IF s = <<>> THEN <<>>
    ELSE (IF Head(s) \in {"\\", ";", ","} THEN <<"\\", Head(s)>>
          ELSE IF Head(s) = "\n" THEN <<"\\", "n">>
          ELSE <<Head(s)>>) \o ical_text(Tail(s))

\* strftime('%H:%M'): the time of day, the date is dropped.
strftime_HM(t) == ToString(t % (24 * 60))

NoText == <<>>
Untitled == <<"Untitled Meeting">>

(* ---- the calendar: what the source can hold ---- *)
\* One calendar entry, as both access methods deliver it.  `id` is the key
\* the API gives it, `uid` the key the feed gives it.
\*   start   when the meeting starts, in minutes on the clock of the machine
\*           (its local time)
\*   kind    "timed" | "allday" | "bad" (a start value that does not parse)
\*           | "nostart" (no start value at all)
\*   z       the feed's DTSTART carries the trailing "Z"
\* Two meetings.  The first has the id "a" in the API and the UID "ab" in
\* the feed (the UID is the id with a suffix); the second has the same text,
\* "c", as id and as UID.  Each comes in the versions it may have when a pass
\* reads it; one feed record has lost its UID line.
KeyA == <<"a">>
KeyAB == <<"a", "b">>
KeyC == <<"c">>

Entry(id, uid, kind, start, z, status, summary, link) ==
    [id |-> id, uid |-> uid, kind |-> kind, start |-> start, z |-> z,
     status |-> status, summary |-> summary, link |-> link]

Meetings ==
    { Entry(KeyA, KeyAB,  "timed",  4,    TRUE,  "confirmed", <<"m", ",">>, NoText),
      Entry(KeyA, NoText, "allday", 0,    FALSE, "confirmed", NoText,  NoText),
      Entry(KeyC, KeyC,   "timed",  3,    FALSE, "confirmed", <<"m">>, NoText),
      Entry(KeyC, KeyC,   "timed",  3,    FALSE, "cancelled", <<"m">>, NoText),
      Entry(KeyC, KeyC,   "timed",  0,    FALSE, "confirmed", <<"m">>, NoText),
      Entry(KeyC, KeyC,   "timed",  1440, FALSE, "confirmed", <<"m">>, NoText),
      Entry(KeyC, KeyC,   "bad",    3,    FALSE, "confirmed", <<"m">>, NoText) }

\* The event object of the API (events().list items).
ApiEvent(m) ==
    [id |-> m.id,
     start |-> [hasDate |-> m.kind = "allday",
                hasDateTime |-> m.kind \in {"timed", "bad"},
                parses |-> m.kind = "timed",
                t |-> m.start],
     status |-> m.status,
     hasSummary |-> m.summary # NoText,
     summary |-> m.summary,
     hangoutLink |-> m.link]

\* The VEVENT dictionary parse_ical builds from the feed.
IcalEvent(m) ==
    [UID |-> m.uid,
     DTSTART |-> [present |-> m.kind # "nostart",
                  hasT |-> m.kind \in {"timed", "bad"},
                  parses |-> m.kind = "timed",
                  z |-> m.z,
                  t |-> m.start],
     STATUS |-> m.status,
     hasSUMMARY |-> m.summary # NoText,
     SUMMARY |-> ical_text(m.summary),
     DESCRIPTION |-> m.link]

NoEvent == Entry(NoText, NoText, "nostart", 0, FALSE, "none", NoText, NoText)

(* ---- state ---- *)
VARIABLES
    clock,          \* wall-clock time, what datetime.now() returns
    stateFile,      \* STATE_FILE: [status: missing | corrupt | ok, data]
    listExists,     \* the Reminders list REMINDER_LIST_NAME exists
    reminders,      \* the reminders of that list (a bag: the list may hold
                    \*   two reminders that are alike)
    variant,        \* which program runs the current pass: "api" | "ical"
    pc,             \* position of the pass in sync_calendar()
    synced_events,  \* the pass's in-memory ledger: [loaded, data]
    now,            \* the pass's local `now`
    time_max,       \* the upper bound sent to events().list (API variant)
    n,              \* events of the batch taken so far
    returned,       \* ids of the events of the API's batch taken so far
    event,          \* the calendar entry the loop is at
    outcome,        \* which check of the loop body ended the last iteration
    request,        \* the arguments of create_macos_reminder
    result,         \* what create_macos_reminder returned
    failure_logged, \* the pass called log() with a failure message
    answers,        \* history: the sink calls of this pass, with results
    passed_over,    \* history: keys that had failed before the pass and that
                    \*   the pass skipped, eligible, without a sink call
    stateFileBefore,\* history: STATE_FILE when the pass started
    failed,         \* history: keys whose latest sink answer was a failure
    failedBefore,   \* history: `failed` when the pass started
    calendar,       \* whole passes: the events every fetch delivers, in order
    utc_offset,     \* whole passes: local time minus UTC, in minutes
    runs,           \* whole passes: how many passes have run
    firstSaved,     \* whole passes: STATE_FILE as the first pass left it
    running,        \* overlapping passes: per process, where its pass is and
                    \*   the synced_events it holds
    order,          \* overlapping passes, history: the loads and saves so far
    agenda,         \* alert scheduler: the events of the primary calendar
    poll,           \* alert scheduler: the poll loop of main(): [pc, now,
                    \*   events, i, failures]
    alerted_events, \* alert scheduler: ids main() has alerted for
    windows,        \* alert scheduler: threads inside show_fullscreen_alert
    timers,         \* alert scheduler: snooze timers that have not fired
    dispatched,     \* alert scheduler, history: a bag, the ids main() has
                    \*   started a presentation thread for
    by              \* alert scheduler, history: who took the last step

sync_vars == <<clock, stateFile, listExists, reminders, variant, pc, synced_events,
               now, time_max, n, returned, event, outcome, request, result,
               failure_logged, answers, passed_over, stateFileBefore, failed,
               failedBefore>>
runs_vars == <<calendar, utc_offset, runs, firstSaved>>
race_vars == <<running, order>>
\* What the step-by-step passes below leave alone.
alert_vars == <<agenda, poll, alerted_events, windows, timers, dispatched, by>>
outside == <<runs_vars, race_vars, alert_vars>>

vars == <<sync_vars, outside>>

world == <<clock, stateFile, listExists, reminders>>
locals == <<synced_events, now, time_max, n, returned, event, outcome, request, result>>
history == <<answers, passed_over, stateFileBefore, failed, failedBefore>>

EmptyLedger == [k \in {} |-> 0]
NoRequest == [event_id |-> NoText, title |-> NoText, body |-> NoText, remind_date |-> 0]
Put(d, k, v) == [x \in (DOMAIN d) \cup {k} |-> IF x = k THEN v ELSE d[x]]

EndStates == {"done", "aborted", "crashed"}

(* ---- the ledger ---- *)
\* v.get('synced_at', '') > cutoff: an entry without synced_at gives '',
\* which is greater than no cutoff; time stamps in ISO format compare as the
\* times they write.
LaterThan(v, cutoff) ==
    "synced_at" \in DOMAIN v /\ v.synced_at > cutoff

\* Variant of load_synced_events that keeps every entry of the file.
load_synced_events_keep_all(file, t) ==
    IF file.status # "ok" THEN EmptyLedger ELSE file.data

\* Variant of load_synced_events that keeps an entry written exactly at the
\* cutoff.
load_synced_events_keeps_cutoff(file, t) ==
    IF file.status # "ok" THEN EmptyLedger
    ELSE LET keep == {k \in DOMAIN file.data :
                         /\ "synced_at" \in DOMAIN file.data[k]
                         /\ file.data[k].synced_at >= t - Retention}
         IN  [k \in keep |-> file.data[k]]

\* load_synced_events(): a missing file and any exception give {}; otherwise
\* the entries whose synced_at is later than now - 2 days.
load_synced_events(file, t) ==
    IF file.status # "ok" THEN EmptyLedger
    ELSE LET keep == {k \in DOMAIN file.data : LaterThan(file.data[k], t - Retention)}
         IN  [k \in keep |-> file.data[k]]

\* save_synced_events(synced): the whole file is replaced by the mapping.
save_synced_events(synced) == [status |-> "ok", data |-> synced]

LedgerEntry(summary, start_time, t) ==
    [summary |-> summary, start_time |-> start_time, synced_at |-> t]

(* ---- the sink ---- *)
EventIdMarker == "\n\nEvent ID: "

ReminderMatches(r, event_id) == Contains(r.body, event_id)

\* make new reminder ... with properties {name, body, remind me date}
NewReminder(req) ==
    [name |-> req.title,
     body |-> req.body \o <<EventIdMarker>> \o req.event_id,
     date |-> req.remind_date]

\* Variant of create_macos_reminder without the lookup before the insert.
create_macos_reminder_no_lookup(rs, req) ==
    [result |-> "created", reminders |-> rs (+) SetToBag({NewReminder(req)})]

\* Variant of create_macos_reminder that brings a reminder it finds up to
\* date with the request.
create_macos_reminder_updating(rs, req) ==
    LET existing == {r \in BagToSet(rs) : ReminderMatches(r, req.event_id)}
    IN  IF Cardinality(existing) = 0
        THEN [result |-> "created", reminders |-> rs (+) SetToBag({NewReminder(req)})]
        ELSE [result |-> "exists",
              reminders |-> (rs (-) SetToBag(existing)) (+) SetToBag({NewReminder(req)})]

\* create_macos_reminder(event_id, title, body, remind_date) when osascript
\* runs the script: look for a reminder whose body contains event_id, make
\* one if there is none.  The date is built from remind_date's fields with
\* the seconds set to 0 (time is counted in whole minutes here); the quotes
\* escaped for the script text are read back by AppleScript as written.
create_macos_reminder(rs, req) ==
    LET existing == {r \in BagToSet(rs) : ReminderMatches(r, req.event_id)}
    IN  IF Cardinality(existing) = 0
        THEN [result |-> "created", reminders |-> rs (+) SetToBag({NewReminder(req)})]
        ELSE [result |-> "exists", reminders |-> rs]

\* Variant of the feed's create_macos_reminder without the lookup.
ical_create_macos_reminder_no_lookup(rs, req) ==
    [result |-> "created", reminders |-> rs (+) SetToBag({NewReminder(req)})]

\* The feed variant's copy of the same function.
ical_create_macos_reminder(rs, req) ==
    LET existing == {r \in BagToSet(rs) : ReminderMatches(r, req.event_id)}
    IN  IF Cardinality(existing) = 0
        THEN [result |-> "created", reminders |-> rs (+) SetToBag({NewReminder(req)})]
        ELSE [result |-> "exists", reminders |-> rs]

\* The event id a reminder was created for: the text after the marker.
ReminderEventId(r) ==
    LET k == CHOOSE i \in 1..Len(r.body) :
                 /\ r.body[i] = EventIdMarker
                 /\ \A j \in (i + 1)..Len(r.body) : r.body[j] # EventIdMarker
    IN  SubSeq(r.body, k + 1, Len(r.body))

(* ---- the loop body's checks ---- *)
\* Variant of api_filter without the "already synced" check.
api_filter_no_ledger(e, synced, t) ==
    IF e.start.hasDate /\ ~e.start.hasDateTime THEN "allday"
    ELSE IF e.status = "cancelled" THEN "cancelled"
    ELSE IF ~e.start.hasDateTime THEN "nostart"
    ELSE IF ~e.start.parses THEN "unparsed"
    ELSE IF e.start.t - REMINDER_MINUTES_BEFORE < t THEN "past"
    ELSE "ok"

\* Variant of api_filter that takes the start for parsed whatever it holds.
api_filter_parse_unchecked(e, synced, t) ==
    IF e.start.hasDate /\ ~e.start.hasDateTime THEN "allday"
    ELSE IF e.status = "cancelled" THEN "cancelled"
    ELSE IF ~e.start.hasDateTime THEN "nostart"
    ELSE IF e.start.t - REMINDER_MINUTES_BEFORE < t THEN "past"
    ELSE IF e.id \in DOMAIN synced THEN "synced"
    ELSE "ok"

\* Variant of api_filter that compares the start, not the reminder time,
\* with now.
api_filter_start_not_past(e, synced, t) ==
    IF e.start.hasDate /\ ~e.start.hasDateTime THEN "allday"
    ELSE IF e.status = "cancelled" THEN "cancelled"
    ELSE IF ~e.start.hasDateTime THEN "nostart"
    ELSE IF ~e.start.parses THEN "unparsed"
    ELSE IF e.start.t < t THEN "past"
    ELSE IF e.id \in DOMAIN synced THEN "synced"
    ELSE "ok"

\* calendar_sync.py, the checks of one iteration, in the code's order.
api_filter(e, synced, t) ==
    IF e.start.hasDate /\ ~e.start.hasDateTime THEN "allday"
    ELSE IF e.status = "cancelled" THEN "cancelled"
    ELSE IF ~e.start.hasDateTime THEN "nostart"
    ELSE IF ~e.start.parses THEN "unparsed"
    ELSE IF e.start.t - REMINDER_MINUTES_BEFORE < t THEN "past"
    ELSE IF e.id \in DOMAIN synced THEN "synced"
    ELSE "ok"

\* parse_ical_datetime(dt_str): the "Z" is removed, then a value with a "T"
\* is read by position as a naive date-time; anything else gives None.
parse_ical_datetime(dt) ==
    IF dt.present /\ dt.hasT /\ dt.parses
    THEN [some |-> TRUE, t |-> dt.t]
    ELSE [some |-> FALSE, t |-> 0]

\* Variant of ical_filter that also skips a reminder time equal to now.
ical_filter_fire_after_now(e, synced, t) ==
    LET start_time == parse_ical_datetime(e.DTSTART)
        cutoff == t + Horizon
    IN  IF e.UID = NoText THEN "nouid"
        ELSE IF ~start_time.some THEN "allday"
        ELSE IF start_time.t < t \/ start_time.t > cutoff THEN "window"
        ELSE IF e.UID \in DOMAIN synced THEN "synced"
        ELSE IF start_time.t - REMINDER_MINUTES_BEFORE <= t THEN "past"
        ELSE "ok"

\* calendar_sync_ical.py, the checks of one iteration, in the code's order.
ical_filter(e, synced, t) ==
    LET start_time == parse_ical_datetime(e.DTSTART)
        cutoff == t + Horizon
    IN  IF e.UID = NoText THEN "nouid"
        ELSE IF ~start_time.some THEN "allday"
        ELSE IF start_time.t < t \/ start_time.t > cutoff THEN "window"
        ELSE IF e.UID \in DOMAIN synced THEN "synced"
        ELSE IF start_time.t - REMINDER_MINUTES_BEFORE < t THEN "past"
        ELSE "ok"

\* extract_meeting_link(event): the structured link if there is one.
extract_meeting_link(e) == e.hangoutLink

\* calendar_sync.py, "Build reminder content".
api_request(e) ==
    LET summary == IF e.hasSummary THEN e.summary ELSE Untitled
        hm == strftime_HM(e.start.t)
        link == extract_meeting_link(e)
    IN  [event_id |-> e.id,
         title |-> <<"cal ">> \o summary \o <<" - ", hm>>,
         body |-> <<"Starts at ", hm>>
                    \o (IF link # NoText THEN <<"\nJoin: ">> \o link ELSE <<>>),
         remind_date |-> e.start.t - REMINDER_MINUTES_BEFORE]

ical_summary(e) == ical_unescape(IF e.hasSUMMARY THEN e.SUMMARY ELSE Untitled)

\* calendar_sync_ical.py, "Build reminder".
ical_request(e) ==
    LET start_time == parse_ical_datetime(e.DTSTART).t
        hm == strftime_HM(start_time)
    IN  [event_id |-> e.UID,
         title |-> <<"cal ">> \o ical_summary(e) \o <<" - ", hm>>,
         body |-> <<"Starts at ", hm>>
                    \o (IF e.DESCRIPTION # NoText
                        THEN <<"\nJoin: ">> \o e.DESCRIPTION ELSE <<>>),
         remind_date |-> start_time - REMINDER_MINUTES_BEFORE]

\* The key a variant files an entry under, and the start it works with.
KeyOf(v, m) == IF v = "api" THEN ApiEvent(m).id ELSE IcalEvent(m).UID
StartOf(v, m) ==
    IF v = "api" THEN ApiEvent(m).start.t ELSE parse_ical_datetime(IcalEvent(m).DTSTART).t
SummaryOf(v, m) ==
    IF v = "api" THEN (IF ApiEvent(m).hasSummary THEN ApiEvent(m).summary ELSE Untitled)
    ELSE ical_summary(IcalEvent(m))

\* An eligible event, as the glossary defines it apart from the ledger: timed,
\* not cancelled, start in [t, t + horizon), fire time not before t.
Eligible(m, t) ==
    /\ m.kind = "timed"
    /\ m.status # "cancelled"
    /\ t <= m.start /\ m.start < t + Horizon
    /\ m.start - REMINDER_MINUTES_BEFORE >= t

(* ---- the pass ---- *)
Procs == {1, 2}

NotRunning == [pc |-> "idle", variant |-> "api", synced_events |-> EmptyLedger, n |-> 0]

\* No whole pass has run and no two passes overlap.
RunsIdle ==
    /\ calendar = <<>>
    /\ utc_offset = 0
    /\ runs = 0
    /\ firstSaved = stateFile

RaceIdle ==
    /\ running = [p \in Procs |-> NotRunning]
    /\ order = <<>>

\* The poll loop of the alert scheduler at its first iteration.
PollStart == [pc |-> "fetch", now |-> 0, events |-> <<>>, i |-> 1, failures |-> 0]

\* The alert scheduler is not part of the behaviour.
AlertIdle ==
    /\ agenda = <<>>
    /\ poll = PollStart
    /\ alerted_events = {}
    /\ windows = 0
    /\ timers = 0
    /\ dispatched = EmptyBag
    /\ by = "none"

\* The locals and the history of a pass before any pass has begun.
PassIdle ==
    /\ variant = "api"
    /\ pc = "idle"
    /\ synced_events = [loaded |-> FALSE, data |-> EmptyLedger]
    /\ now = 0
    /\ time_max = 0
    /\ n = 0
    /\ returned = {}
    /\ event = NoEvent
    /\ outcome = "none"
    /\ request = NoRequest
    /\ result = "none"
    /\ failure_logged = FALSE
    /\ answers = {}
    /\ passed_over = {}
    /\ stateFileBefore = stateFile
    /\ failed = {}
    /\ failedBefore = {}

Init ==
    /\ clock = 0
    /\ stateFile = [status |-> "missing", data |-> EmptyLedger]
    /\ listExists = FALSE
    /\ reminders = EmptyBag
    /\ PassIdle
    /\ RunsIdle
    /\ RaceIdle
    /\ AlertIdle

\* A run of one of the two programs begins (launchd, or the user).
StartPass(v) ==
    /\ pc = "idle"
    /\ variant' = v
    /\ pc' = IF v = "api" THEN "connect" ELSE "fetch"
    /\ synced_events' = [loaded |-> FALSE, data |-> EmptyLedger]
    /\ now' = 0
    /\ time_max' = 0
    /\ n' = 0
    /\ returned' = {}
    /\ event' = NoEvent
    /\ outcome' = "none"
    /\ request' = NoRequest
    /\ result' = "none"
    /\ failure_logged' = FALSE
    /\ answers' = {}
    /\ passed_over' = {}
    /\ stateFileBefore' = stateFile
    /\ failedBefore' = failed
    /\ UNCHANGED <<world, failed>>
    /\ UNCHANGED outside

\* calendar_sync.py: get_calendar_service() inside try/except, then
\* ensure_reminder_list_exists() and load_synced_events().
api_connect(ok) ==
    /\ pc = "connect"
    /\ IF ok
       THEN /\ listExists' = TRUE
            /\ synced_events' = [loaded |-> TRUE,
                                 data |-> load_synced_events(stateFile, clock)]
            /\ pc' = "list"
            /\ UNCHANGED failure_logged
       ELSE /\ failure_logged' = TRUE
            /\ pc' = "aborted"
            /\ UNCHANGED <<listExists, synced_events>>
    /\ UNCHANGED <<clock, stateFile, reminders, variant, now, time_max, n, returned, event,
                   outcome, request, result, history>>
    /\ UNCHANGED outside

\* calendar_sync.py: events = get_upcoming_events(service), outside any try:
\* an exception of events().list().execute() ends the process unlogged.
api_list(ok) ==
    /\ pc = "list"
    /\ IF ok
       THEN /\ time_max' = clock + Horizon
            /\ pc' = "loop"
       ELSE /\ pc' = "aborted"
            /\ UNCHANGED time_max
    /\ UNCHANGED <<world, variant, synced_events, now, n, returned, event, outcome,
                   request, result, failure_logged, history>>
    /\ UNCHANGED outside

\* What events().list returns for timeMax: entries that start before it.
get_upcoming_events(tmax) ==
    {m \in Meetings : m.kind = "timed" => m.start < tmax}

\* calendar_sync_ical.py: the download inside try/except, then
\* ensure_reminder_list_exists(), load_synced_events(), parse_ical(), now.
ical_fetch(ok) ==
    /\ pc = "fetch"
    /\ IF ok
       THEN /\ listExists' = TRUE
            /\ synced_events' = [loaded |-> TRUE,
                                 data |-> load_synced_events(stateFile, clock)]
            /\ now' = clock
            /\ pc' = "loop"
            /\ UNCHANGED failure_logged
       ELSE /\ failure_logged' = TRUE
            /\ pc' = "aborted"
            /\ UNCHANGED <<listExists, synced_events, now>>
    /\ UNCHANGED <<clock, stateFile, reminders, variant, time_max, n, returned,
                   event, outcome, request, result, history>>
    /\ UNCHANGED outside

\* History: the keys passed over so far, after entry m (filed under key) met
\* the loop body with outcome o.  An entry counts when its key had failed
\* before this pass, it is eligible at the pass's `now` t, and the pass has
\* not submitted the key to the sink.
PassedOver(m, key, o, t) ==
    IF /\ key \in failedBefore
       /\ Eligible(m, t)
       /\ o # "ok"
       /\ \A a \in answers : a.event_id # key
    THEN passed_over \cup {key}
    ELSE passed_over

\* calendar_sync.py: one iteration of `for event in events`, up to the call
\* of create_macos_reminder.
api_event(m) ==
    /\ pc = "loop" /\ variant = "api" /\ n < MaxBatch
    /\ m \in get_upcoming_events(time_max)
    /\ m.id \notin returned
    /\ returned' = returned \cup {m.id}
    /\ LET e == ApiEvent(m)
           t == IF e.start.hasDateTime /\ e.start.parses /\ e.status # "cancelled"
                THEN clock ELSE now
           o == api_filter(e, synced_events.data, t)
       IN  /\ now' = t
           /\ outcome' = o
           /\ passed_over' = PassedOver(m, e.id, o, t)
           /\ IF o = "ok"
              THEN /\ request' = api_request(e)
                   /\ pc' = "create"
              ELSE /\ request' = NoRequest
                   /\ pc' = "loop"
    /\ event' = IF outcome' \in {"ok", "past", "synced"} THEN m ELSE NoEvent
    /\ n' = n + 1
    /\ result' = "none"
    /\ UNCHANGED <<world, variant, synced_events, time_max, failure_logged,
                   answers, stateFileBefore, failed, failedBefore>>
    /\ UNCHANGED outside

\* calendar_sync_ical.py: one iteration of `for event in events`, up to the
\* call of create_macos_reminder.
ical_event(m) ==
    /\ pc = "loop" /\ variant = "ical" /\ n < MaxBatch
    /\ m \in Meetings
    /\ LET e == IcalEvent(m)
           o == ical_filter(e, synced_events.data, now)
       IN  /\ outcome' = o
           /\ passed_over' = PassedOver(m, e.UID, o, now)
           /\ IF o = "ok"
              THEN /\ request' = ical_request(e)
                   /\ pc' = "create"
              ELSE /\ request' = NoRequest
                   /\ pc' = "loop"
    /\ event' = IF outcome' \in {"ok", "past", "synced"} THEN m ELSE NoEvent
    /\ n' = n + 1
    /\ result' = "none"
    /\ UNCHANGED <<world, variant, synced_events, now, time_max, returned,
                   failure_logged, answers, stateFileBefore, failed, failedBefore>>
    /\ UNCHANGED outside

\* result = create_macos_reminder(...): osascript either runs the script or
\* fails (then stdout is empty and nothing is created).
CreateReminder(up) ==
    /\ pc = "create"
    /\ LET r == IF variant = "api" THEN create_macos_reminder(reminders, request)
                ELSE ical_create_macos_reminder(reminders, request)
       IN  IF up /\ listExists
           THEN /\ result' = r.result
                /\ reminders' = r.reminders
           ELSE /\ result' = ""
                /\ UNCHANGED reminders
    /\ pc' = "record"
    /\ UNCHANGED <<clock, stateFile, listExists, variant, synced_events, now,
                   time_max, n, returned, event, outcome, request, failure_logged,
                   history>>
    /\ UNCHANGED outside

\* Variant of record_result without the `elif result == 'exists'` branch.
record_result_created_only(synced, res, key, summary, start_time, t) ==
    IF res = "created"
    THEN Put(synced, key, LedgerEntry(summary, start_time, t))
    ELSE synced

\* Variant of record_result that files an entry whatever the sink answered.
record_result_always(synced, res, key, summary, start_time, t) ==
    Put(synced, key, LedgerEntry(summary, start_time, t))

\* The mapping after `if result == 'created': ... elif result == 'exists': ...`
record_result(synced, res, key, summary, start_time, t) ==
    IF res = "created" \/ res = "exists"
    THEN Put(synced, key, LedgerEntry(summary, start_time, t))
    ELSE synced

\* Variant of Record that saves the ledger after every sink call.
Record_saving ==
    /\ pc = "record"
    /\ synced_events' =
         [synced_events EXCEPT !.data =
            record_result(@, result, request.event_id, SummaryOf(variant, event),
                          StartOf(variant, event), clock)]
    /\ answers' = answers \cup {[event_id |-> request.event_id, result |-> result,
                               summary |-> SummaryOf(variant, event),
                               start_time |-> StartOf(variant, event)]}
    /\ failed' = IF result \in {"created", "exists"}
                 THEN failed \ {request.event_id}
                 ELSE failed \cup {request.event_id}
    /\ event' = NoEvent
    /\ outcome' = "none"
    /\ request' = NoRequest
    /\ result' = "none"
    /\ pc' = "loop"
    /\ stateFile' = save_synced_events(synced_events'.data)
    /\ UNCHANGED <<clock, listExists, reminders, variant, now, time_max, n, returned,
                   failure_logged, passed_over, stateFileBefore, failedBefore>>
    /\ UNCHANGED outside

\* The two branches on `result` after the sink call.
Record ==
    /\ pc = "record"
    /\ synced_events' =
         [synced_events EXCEPT !.data =
            record_result(@, result, request.event_id, SummaryOf(variant, event),
                          StartOf(variant, event), clock)]
    /\ answers' = answers \cup {[event_id |-> request.event_id, result |-> result,
                               summary |-> SummaryOf(variant, event),
                               start_time |-> StartOf(variant, event)]}
    /\ failed' = IF result \in {"created", "exists"}
                 THEN failed \ {request.event_id}
                 ELSE failed \cup {request.event_id}
    /\ event' = NoEvent
    /\ outcome' = "none"
    /\ request' = NoRequest
    /\ result' = "none"
    /\ pc' = "loop"
    /\ UNCHANGED <<world, variant, now, time_max, n, returned, failure_logged,
                   passed_over, stateFileBefore, failedBefore>>
    /\ UNCHANGED outside

\* The loop is over: save_synced_events(synced_events), then the last log.
Save ==
    /\ pc = "loop"
    /\ stateFile' = save_synced_events(synced_events.data)
    /\ pc' = "done"
    /\ now' = 0
    /\ time_max' = 0
    /\ n' = 0
    /\ returned' = {}
    /\ event' = NoEvent
    /\ outcome' = "none"
    /\ UNCHANGED <<clock, listExists, reminders, variant, synced_events, request,
                   result, failure_logged, history>>
    /\ UNCHANGED outside

\* The process is stopped while the pass is between two of its steps.
Crash ==
    /\ pc \in {"list", "loop", "create", "record"}
    /\ pc' = "crashed"
    /\ variant' = "api"
    /\ synced_events' = [loaded |-> FALSE, data |-> EmptyLedger]
    /\ now' = 0
    /\ time_max' = 0
    /\ n' = 0
    /\ returned' = {}
    /\ event' = NoEvent
    /\ outcome' = "none"
    /\ request' = NoRequest
    /\ result' = "none"
    /\ failure_logged' = FALSE
    /\ answers' = {}
    /\ passed_over' = {}
    /\ failedBefore' = failed
    /\ UNCHANGED <<world, stateFileBefore, failed>>
    /\ UNCHANGED outside

\* The process has ended; nothing of it is left but the file and the list.
Return ==
    /\ pc \in EndStates
    /\ pc' = "idle"
    /\ variant' = "api"
    /\ synced_events' = [loaded |-> FALSE, data |-> EmptyLedger]
    /\ now' = 0
    /\ time_max' = 0
    /\ n' = 0
    /\ returned' = {}
    /\ event' = NoEvent
    /\ outcome' = "none"
    /\ request' = NoRequest
    /\ result' = "none"
    /\ failure_logged' = FALSE
    /\ answers' = {}
    /\ passed_over' = {}
    /\ stateFileBefore' = stateFile
    /\ failedBefore' = failed
    /\ UNCHANGED <<world, failed>>
    /\ UNCHANGED outside

\* Time passes: between two passes, and inside a pass while it waits for the
\* network (between the load and the listing) or for the sink.
Tick ==
    /\ pc \in {"idle", "list", "record"}
    /\ clock < MaxClock
    /\ clock' = clock + 1
    /\ UNCHANGED <<stateFile, listExists, reminders, variant, pc, locals,
                   failure_logged, history>>
    /\ UNCHANGED outside

\* Between two passes the ledger file is lost (a damaged file loads the same
\* way: as an empty ledger).
LoseLedger ==
    /\ pc = "idle"
    /\ stateFile.status = "ok"
    /\ stateFile' = [status |-> "missing", data |-> EmptyLedger]
    /\ stateFileBefore' = stateFile'
    /\ UNCHANGED <<clock, listExists, reminders, variant, pc, locals,
                   failure_logged, answers, passed_over, failed, failedBefore>>
    /\ UNCHANGED outside

Next ==
    \/ \E v \in {"api", "ical"} : StartPass(v)
    \/ \E ok \in BOOLEAN : api_connect(ok)
    \/ \E ok \in BOOLEAN : api_list(ok)
    \/ \E ok \in BOOLEAN : ical_fetch(ok)
    \/ \E m \in Meetings : api_event(m)
    \/ \E m \in Meetings : ical_event(m)
    \/ \E up \in BOOLEAN : CreateReminder(up)
    \/ Record
    \/ Save
    \/ Crash
    \/ Return
    \/ Tick
    \/ LoseLedger

Spec == Init /\ [][Next]_vars

(* ---- whole passes over one calendar ---- *)
\* The passes above, taken one step at a time, draw each event as the loop
\* comes to it.  Below a pass is one step: sync_calendar() from its first
\* line to its last, over a calendar that stays as it is from pass to pass.
\* The time the pass takes is not counted: every datetime.now() of the pass
\* gives t.
MaxRuns == 2

KeyOld == <<"o">>

\* The feed's record of entry m on a machine whose local time is UTC + off
\* minutes: a DTSTART value that ends in "Z" writes the start in UTC.
IcalEventAt(m, off) ==
    [IcalEvent(m) EXCEPT !.DTSTART.t = IF m.z THEN m.start - off ELSE m.start]

\* What the pass gets from the calendar: the API's list for the window that
\* ends at t + horizon, or every VEVENT of the feed.
fetch_events(v, cal, t, off) ==
    IF v = "api"
    THEN LET listed(m) == m \in get_upcoming_events(t + Horizon)
             items == SelectSeq(cal, listed)
         IN  [i \in 1..Len(items) |-> ApiEvent(items[i])]
    ELSE [i \in 1..Len(cal) |-> IcalEventAt(cal[i], off)]

RECURSIVE sync_loop(_, _, _, _, _, _)
\* `for event in events`, from the i-th event on.  st is what the loop has
\* built so far: [synced, reminders, answers]; up[i] tells whether osascript
\* runs the script when the i-th event is submitted.
sync_loop(v, events, i, up, t, st) ==
    IF i > Len(events) THEN st
    ELSE LET e == events[i]
             o == IF v = "api" THEN api_filter(e, st.synced, t)
                  ELSE ical_filter(e, st.synced, t)
             req == IF v = "api" THEN api_request(e) ELSE ical_request(e)
             summary == IF v = "api"
                        THEN (IF e.hasSummary THEN e.summary ELSE Untitled)
                        ELSE ical_summary(e)
             start_time == IF v = "api" THEN e.start.t
                           ELSE parse_ical_datetime(e.DTSTART).t
             r == IF ~up[i] THEN [result |-> "", reminders |-> st.reminders]
                  ELSE IF v = "api" THEN create_macos_reminder(st.reminders, req)
                  ELSE ical_create_macos_reminder(st.reminders, req)
             after ==
                 IF o = "ok"
                 THEN [synced |-> record_result(st.synced, r.result, req.event_id,
                                                summary, start_time, t),
                       reminders |-> r.reminders,
                       answers |-> st.answers \cup
                           {[event_id |-> req.event_id, result |-> r.result,
                             summary |-> summary, start_time |-> start_time]}]
                 ELSE st
         IN  sync_loop(v, events, i + 1, up, t, after)

\* sync_calendar() once the calendar has been fetched: load, loop, save.
sync_calendar(v, cal, file, rs, t, off, up) ==
    LET loaded == load_synced_events(file, t)
        events == fetch_events(v, cal, t, off)
        st == sync_loop(v, events, 1, up, t,
                        [synced |-> loaded, reminders |-> rs, answers |-> {}])
    IN  [file |-> save_synced_events(st.synced), reminders |-> st.reminders,
         answers |-> st.answers, synced |-> st.synced]

\* An entry left in the ledger by a pass of some days ago.
OldEntry(at) == LedgerEntry(<<"m">>, at, at)

\* What STATE_FILE may hold before the first pass.  "corrupt": a file whose
\* text is no JSON object of entries; "unreadable": open(STATE_FILE, 'r')
\* raises (no permission, a directory of that name).
StoredFiles ==
    { [status |-> "missing", data |-> EmptyLedger],
      [status |-> "corrupt", data |-> EmptyLedger],
      [status |-> "unreadable", data |-> EmptyLedger],
      [status |-> "ok", data |-> Put(EmptyLedger, KeyOld, OldEntry(0 - Retention))],
      [status |-> "ok", data |-> Put(EmptyLedger, KeyOld, OldEntry(1 - Retention))],
      [status |-> "ok", data |-> Put(EmptyLedger, KeyOld,
                                     [summary |-> <<"m">>, start_time |-> 0])] }

UtcOffsets == {0 - 60, 0, 60}

\* The list before the first pass: empty, or with the reminder an earlier
\* pass made for the second meeting.
StoredReminders ==
    { EmptyBag,
      SetToBag({NewReminder([event_id |-> KeyC, title |-> <<"cal ", "m", " - ", "3">>,
                             body |-> <<"Starts at ", "3">>, remind_date |-> 0])}) }

\* The calendars of the whole passes: every meeting is in it once.
Calendars ==
    {c \in UNION {[1..k -> Meetings] : k \in 0..MaxBatch} :
        \A i, j \in 1..Len(c) : c[i].id = c[j].id => i = j}

RunsInit ==
    /\ clock = 0
    /\ stateFile \in StoredFiles
    /\ reminders \in StoredReminders
    /\ listExists = (reminders # EmptyBag)
    /\ variant \in {"api", "ical"}
    /\ pc = "idle"
    /\ synced_events = [loaded |-> FALSE, data |-> EmptyLedger]
    /\ now = 0
    /\ time_max = 0
    /\ n = 0
    /\ returned = {}
    /\ event = NoEvent
    /\ outcome = "none"
    /\ request = NoRequest
    /\ result = "none"
    /\ failure_logged = FALSE
    /\ answers = {}
    /\ passed_over = {}
    /\ stateFileBefore = stateFile
    /\ failed = {}
    /\ failedBefore = {}
    /\ calendar \in Calendars
    /\ utc_offset \in UtcOffsets
    /\ runs = 0
    /\ firstSaved = stateFile
    /\ RaceIdle
    /\ AlertIdle

\* Whether open(STATE_FILE, 'w') succeeds: always for a missing file and for
\* one that could be read; what cannot be opened for reading may or may not
\* open for writing.
CanWrite(file) == IF file.status = "unreadable" THEN BOOLEAN ELSE {TRUE}

\* One run of the program of `variant`, from start to end.  When the open
\* in save_synced_events() raises, the run ends there, after the loop.
RunPass(fetched) ==
    /\ pc \in {"idle", "done", "aborted", "crashed"}
    /\ runs < MaxRuns
    /\ runs' = runs + 1
    /\ now' = clock
    /\ stateFileBefore' = stateFile
    /\ IF fetched
       THEN \E up \in [1..Len(calendar) -> BOOLEAN], written \in CanWrite(stateFile) :
              LET pass == sync_calendar(variant, calendar, stateFile, reminders,
                                        clock, utc_offset, up)
              IN  /\ pc' = IF written THEN "done" ELSE "crashed"
                  /\ stateFile' = IF written THEN pass.file ELSE stateFile
                  /\ reminders' = pass.reminders
                  /\ answers' = pass.answers
                  /\ synced_events' = [loaded |-> TRUE, data |-> pass.synced]
                  /\ listExists' = TRUE
                  /\ failure_logged' = FALSE
       ELSE /\ pc' = "aborted"
            /\ answers' = {}
            /\ synced_events' = [loaded |-> FALSE, data |-> EmptyLedger]
            /\ failure_logged' = TRUE
            /\ UNCHANGED <<stateFile, reminders, listExists>>
    /\ firstSaved' = IF runs > 0 THEN firstSaved
                     ELSE IF pc' = "done" THEN stateFile'
                     ELSE [status |-> "none", data |-> EmptyLedger]
    /\ UNCHANGED <<clock, variant, time_max, n, returned, event, outcome, request,
                   result, passed_over, failed, failedBefore, calendar, utc_offset,
                   race_vars, alert_vars>>

\* Time passes between two runs.
Wait ==
    /\ pc \in {"done", "aborted", "crashed"}
    /\ clock < MaxClock
    /\ clock' = clock + 1
    /\ pc' = "idle"
    /\ UNCHANGED <<stateFile, listExists, reminders, variant, locals,
                   failure_logged, history, outside>>

\* Between two runs the ledger file is damaged: what it holds is no JSON
\* object of entries any more.
DamageLedger ==
    /\ pc \in {"done", "aborted"}
    /\ stateFile.status = "ok"
    /\ stateFile' = [status |-> "corrupt", data |-> EmptyLedger]
    /\ pc' = "idle"
    /\ UNCHANGED <<clock, listExists, reminders, variant, locals,
                   failure_logged, history, outside>>

RunsNext ==
    \/ \E fetched \in BOOLEAN : RunPass(fetched)
    \/ Wait
    \/ DamageLedger

SpecRuns == RunsInit /\ [][RunsNext]_vars

(* ---- whole passes, days apart ---- *)
\* The passes of the two programs over one calendar, with hours and days
\* between them.  Nothing but the passes touches STATE_FILE and the list.
Jumps == {Horizon \div 2, Retention}
MaxTime == Retention + Horizon

LongInit ==
    /\ clock = 0
    /\ stateFile = [status |-> "missing", data |-> EmptyLedger]
    /\ listExists = FALSE
    /\ reminders = EmptyBag
    /\ variant \in {"api", "ical"}
    /\ pc = "idle"
    /\ synced_events = [loaded |-> FALSE, data |-> EmptyLedger]
    /\ now = 0
    /\ time_max = 0
    /\ n = 0
    /\ returned = {}
    /\ event = NoEvent
    /\ outcome = "none"
    /\ request = NoRequest
    /\ result = "none"
    /\ failure_logged = FALSE
    /\ answers = {}
    /\ passed_over = {}
    /\ stateFileBefore = stateFile
    /\ failed = {}
    /\ failedBefore = {}
    /\ calendar \in Calendars
    /\ utc_offset \in UtcOffsets
    /\ runs = 0
    /\ firstSaved = stateFile
    /\ RaceIdle
    /\ AlertIdle

\* d minutes pass; the next pass is a run of program v.
Elapse(d, v) ==
    /\ pc \in {"idle", "done", "aborted"}
    /\ clock + d <= MaxTime
    /\ clock' = clock + d
    /\ variant' = v
    /\ pc' = "idle"
    /\ UNCHANGED <<stateFile, listExists, reminders, locals, failure_logged,
                   history, outside>>

LongNext ==
    \/ \E fetched \in BOOLEAN : RunPass(fetched)
    \/ \E d \in Jumps, v \in {"api", "ical"} : Elapse(d, v)

SpecLong == LongInit /\ [][LongNext]_vars

(* ---- two passes that overlap ---- *)
\* Two processes run sync_calendar() at the same time (launchd starts a
\* pass while the user runs one by hand): each holds its own synced_events
\* and shares STATE_FILE and the list with the other.  Each call of
\* osascript is one step.  The clock stands still.
RaceInit ==
    /\ clock = 0
    /\ stateFile = [status |-> "missing", data |-> EmptyLedger]
    /\ listExists = FALSE
    /\ reminders = EmptyBag
    /\ PassIdle
    /\ RunsIdle
    /\ RaceIdle
    /\ AlertIdle

\* Process p has fetched the calendar: ensure_reminder_list_exists(), then
\* synced_events = load_synced_events().
RaceLoad(p, v) ==
    /\ running[p].pc = "idle"
    /\ running' = [running EXCEPT ![p] =
                      [pc |-> "loop", variant |-> v,
                       synced_events |-> load_synced_events(stateFile, clock),
                       n |-> 0]]
    /\ order' = Append(order, <<"load", p>>)
    /\ listExists' = TRUE
    /\ UNCHANGED <<clock, stateFile, reminders, variant, pc, locals,
                   failure_logged, history, runs_vars, alert_vars>>

\* One iteration of p's loop over calendar entry m: the checks, the sink
\* call, the branches on its result.
RaceEvent(p, m, up) ==
    /\ running[p].pc = "loop"
    /\ running[p].n < MaxBatch
    /\ running[p].variant = "api" => m \in get_upcoming_events(clock + Horizon)
    /\ LET v == running[p].variant
           e == IF v = "api" THEN ApiEvent(m) ELSE IcalEvent(m)
           st == sync_loop(v, <<e>>, 1, <<up>>, clock,
                           [synced |-> running[p].synced_events,
                            reminders |-> reminders, answers |-> {}])
       IN  /\ running' = [running EXCEPT ![p].synced_events = st.synced,
                                          ![p].n = @ + 1]
           /\ reminders' = st.reminders
    /\ UNCHANGED <<clock, stateFile, listExists, variant, pc, locals,
                   failure_logged, history, runs_vars, order, alert_vars>>

\* Variant of RaceSave that adds its entries to those of the file.
RaceSave_merging(p) ==
    /\ running[p].pc = "loop"
    /\ stateFile' =
         [status |-> "ok",
          data |-> [k \in DOMAIN stateFile.data \cup DOMAIN running[p].synced_events |->
                      IF k \in DOMAIN running[p].synced_events
                      THEN running[p].synced_events[k] ELSE stateFile.data[k]]]
    /\ running' = [running EXCEPT ![p].pc = "done"]
    /\ order' = Append(order, <<"save", p>>)
    /\ UNCHANGED <<clock, listExists, reminders, variant, pc, locals,
                   failure_logged, history, runs_vars, alert_vars>>

\* p's loop is over: save_synced_events(synced_events).
RaceSave(p) ==
    /\ running[p].pc = "loop"
    /\ stateFile' = save_synced_events(running[p].synced_events)
    /\ running' = [running EXCEPT ![p].pc = "done"]
    /\ order' = Append(order, <<"save", p>>)
    /\ UNCHANGED <<clock, listExists, reminders, variant, pc, locals,
                   failure_logged, history, runs_vars, alert_vars>>

RaceNext ==
    \/ \E p \in Procs, v \in {"api", "ical"} : RaceLoad(p, v)
    \/ \E p \in Procs, m \in Meetings, up \in BOOLEAN : RaceEvent(p, m, up)
    \/ \E p \in Procs : RaceSave(p)

SpecRace == RaceInit /\ [][RaceNext]_vars

(* ---- the alert scheduler, meeting_reminder.py ---- *)
\* Times are seconds since main() began its loop.
CHECK_INTERVAL_SECONDS == 30
\* The size of alerted_events above which main() empties it.
MAX_ALERTED == 50

MaxEvents == 51
MaxWindows == 2
MaxFetchFailures == 1
MaxPolls == MaxEvents + 2

\* A calendar with one short meeting every CHECK_INTERVAL_SECONDS.
Stream(k) ==
    [i \in 1..k |->
        [id |-> i, kind |-> "timed",
         start |-> REMINDER_MINUTES_BEFORE * 60 + i * CHECK_INTERVAL_SECONDS,
         end |-> REMINDER_MINUTES_BEFORE * 60 + (i + 2) * CHECK_INTERVAL_SECONDS]]

\* An all-day event, an event whose start has neither 'date' nor
\* 'dateTime', and one whose 'dateTime' date_parser.parse rejects.
Oddities ==
    { [id |-> 0, kind |-> "allday", start |-> 0, end |-> 86400],
      [id |-> 0, kind |-> "none", start |-> 0, end |-> 2 * CHECK_INTERVAL_SECONDS],
      [id |-> 0, kind |-> "bad", start |-> 0, end |-> 2 * CHECK_INTERVAL_SECONDS] }

\* A meeting whose start does not parse, fetched for the first time in the
\* poll that alerts for the last meeting of Stream(MAX_ALERTED + 1).
LateBad ==
    [id |-> 0, kind |-> "bad",
     start |-> REMINDER_MINUTES_BEFORE * 60 + (MAX_ALERTED + 2) * CHECK_INTERVAL_SECONDS,
     end |-> REMINDER_MINUTES_BEFORE * 60 + (MAX_ALERTED + 4) * CHECK_INTERVAL_SECONDS]

\* Meetings that start between two polls, the last two of no length.
Offbeat ==
    << [id |-> 1, kind |-> "timed",
        start |-> REMINDER_MINUTES_BEFORE * 60 + 1,
        end |-> REMINDER_MINUTES_BEFORE * 60 + 1 + 2 * CHECK_INTERVAL_SECONDS],
       [id |-> 2, kind |-> "timed",
        start |-> REMINDER_MINUTES_BEFORE * 60 + CHECK_INTERVAL_SECONDS - 1,
        end |-> REMINDER_MINUTES_BEFORE * 60 + CHECK_INTERVAL_SECONDS - 1],
       [id |-> 3, kind |-> "timed",
        start |-> REMINDER_MINUTES_BEFORE * 60 + 2 * CHECK_INTERVAL_SECONDS,
        end |-> REMINDER_MINUTES_BEFORE * 60 + 2 * CHECK_INTERVAL_SECONDS] >>

Agendas ==
    {Stream(1), Stream(MaxEvents), Offbeat, Stream(MAX_ALERTED + 1) \o <<LateBad>>}
        \cup {<<x>> \o Stream(2) : x \in Oddities}

\* Variant of reminder_get_upcoming_events that does not look ahead.
reminder_get_upcoming_events_begun(cal, t, minutes_ahead) ==
    SelectSeq(cal, LAMBDA e : e.end > t /\ e.start <= t)

\* get_upcoming_events(service, minutes_ahead) of meeting_reminder.py: the
\* events that end after now and start before now + minutes_ahead, by start.
reminder_get_upcoming_events(cal, t, minutes_ahead) ==
    SelectSeq(cal, LAMBDA e : e.end > t /\ e.start < t + minutes_ahead * 60)

\* The body of main()'s loop over the events up to the decision to alert.
alert_check(e, alerted, t) ==
    IF e.id \in alerted THEN "skip"
    ELSE IF e.kind = "allday" THEN "skip"
    ELSE IF e.kind = "none" THEN "skip"
    ELSE IF e.kind = "bad" THEN "raise"
    ELSE IF 0 <= e.start - t /\ e.start - t <= REMINDER_MINUTES_BEFORE * 60
         THEN "alert"
    ELSE "skip"

AlertInit ==
    /\ clock = 0
    /\ stateFile = [status |-> "missing", data |-> EmptyLedger]
    /\ listExists = FALSE
    /\ reminders = EmptyBag
    /\ PassIdle
    /\ RunsIdle
    /\ RaceIdle
    /\ agenda \in Agendas
    /\ poll = PollStart
    /\ alerted_events = {}
    /\ windows = 0
    /\ timers = 0
    /\ dispatched = EmptyBag
    /\ by = "none"

not_alert == <<sync_vars, runs_vars, race_vars>>

\* events = get_upcoming_events(...); it raises when the request fails.
PollFetch(ok) ==
    /\ poll.pc = "fetch"
    /\ IF ok
       THEN poll' = [poll EXCEPT !.pc = "check", !.i = 1,
                       !.events = reminder_get_upcoming_events(
                                     agenda, poll.now, REMINDER_MINUTES_BEFORE + 1)]
       ELSE /\ poll.failures < MaxFetchFailures
            /\ poll' = [poll EXCEPT !.pc = "sleep", !.failures = @ + 1]
    /\ by' = "poll"
    /\ UNCHANGED <<agenda, alerted_events, windows, timers, dispatched, not_alert>>

\* The loop takes the next event and decides; an exception ends the loop.
PollCheck ==
    /\ poll.pc = "check"
    /\ IF poll.i > Len(poll.events)
       THEN poll' = [poll EXCEPT !.pc = "cleanup"]
       ELSE LET d == alert_check(poll.events[poll.i], alerted_events, poll.now)
            IN  poll' = IF d = "alert" THEN [poll EXCEPT !.pc = "mark"]
                        ELSE IF d = "raise" THEN [poll EXCEPT !.pc = "sleep"]
                        ELSE [poll EXCEPT !.i = @ + 1]
    /\ by' = "poll"
    /\ UNCHANGED <<agenda, alerted_events, windows, timers, dispatched, not_alert>>

\* alerted_events.add(event_id)
PollMark ==
    /\ poll.pc = "mark"
    /\ alerted_events' = alerted_events \cup {poll.events[poll.i].id}
    /\ poll' = [poll EXCEPT !.pc = "dispatch"]
    /\ by' = "poll"
    /\ UNCHANGED <<agenda, windows, timers, dispatched, not_alert>>

\* threading.Thread(target=show_fullscreen_alert, ...).start()
PollDispatch ==
    /\ poll.pc = "dispatch"
    /\ windows + timers < MaxWindows
    /\ windows' = windows + 1
    /\ dispatched' = dispatched (+) SetToBag({poll.events[poll.i].id})
    /\ poll' = [poll EXCEPT !.pc = "check", !.i = @ + 1]
    /\ by' = "poll"
    /\ UNCHANGED <<agenda, alerted_events, timers, not_alert>>

\* if len(alerted_events) > 50: alerted_events.clear()
PollCleanup ==
    /\ poll.pc = "cleanup"
    /\ alerted_events' = IF Cardinality(alerted_events) > MAX_ALERTED
                         THEN {} ELSE alerted_events
    /\ poll' = [poll EXCEPT !.pc = "sleep"]
    /\ by' = "poll"
    /\ UNCHANGED <<agenda, windows, timers, dispatched, not_alert>>

\* time.sleep(CHECK_INTERVAL_SECONDS), and the loop starts over.
PollSleep ==
    /\ poll.pc = "sleep"
    /\ poll.now < MaxPolls * CHECK_INTERVAL_SECONDS
    /\ poll' = [poll EXCEPT !.pc = "fetch", !.now = @ + CHECK_INTERVAL_SECONDS,
                            !.events = <<>>, !.i = 1]
    /\ by' = "poll"
    /\ UNCHANGED <<agenda, alerted_events, windows, timers, dispatched, not_alert>>

\* A presentation thread ends: join_meeting(), dismiss(), the timeout, or
\* the notification where tkinter is missing.
Dismiss ==
    /\ windows > 0
    /\ windows' = windows - 1
    /\ by' = "alert"
    /\ UNCHANGED <<agenda, poll, alerted_events, timers, dispatched, not_alert>>

\* Variant of Snooze that empties the scheduler's set.
Snooze_clearing ==
    /\ windows > 0
    /\ windows' = windows - 1
    /\ timers' = timers + 1
    /\ alerted_events' = {}
    /\ by' = "alert"
    /\ UNCHANGED <<agenda, poll, dispatched, not_alert>>

\* snooze(): the window closes and a threading.Timer is started.
Snooze ==
    /\ windows > 0
    /\ windows' = windows - 1
    /\ timers' = timers + 1
    /\ by' = "alert"
    /\ UNCHANGED <<agenda, poll, alerted_events, dispatched, not_alert>>

\* A snooze timer fires: show_fullscreen_alert(event, meeting_link) again.
TimerFires ==
    /\ timers > 0
    /\ timers' = timers - 1
    /\ windows' = windows + 1
    /\ by' = "timer"
    /\ UNCHANGED <<agenda, poll, alerted_events, dispatched, not_alert>>

AlertNext ==
    \/ \E ok \in BOOLEAN : PollFetch(ok)
    \/ PollCheck
    \/ PollMark
    \/ PollDispatch
    \/ PollCleanup
    \/ PollSleep
    \/ Dismiss
    \/ Snooze
    \/ TimerFires

SpecAlert == AlertInit /\ [][AlertNext]_vars

(* ======================= the claims ======================= *)
SinkCalled == pc \in {"create", "record"}
Answered(a) == a.result \in {"created", "exists"}
LedgerKeys(file) == DOMAIN file.data
\* How many reminders of the list were created for one of `keys`.
RECURSIVE CopiesOf(_)
CopiesOf(rs) ==
    IF rs = {} THEN 0
    ELSE LET r == CHOOSE x \in rs : TRUE
         IN  CopiesIn(r, reminders) + CopiesOf(rs \ {r})
RemindersFor(keys) ==
    CopiesOf({r \in BagToSet(reminders) : ReminderEventId(r) \in keys})

\* C1: whatever passes have run (interrupted ones, ones whose sink calls
\* failed, ones that started from a lost ledger), the reminder list holds
\* at most one reminder per event id.
C1_AtMostOneReminderPerEventId ==
    \A r \in BagToSet(reminders) : RemindersFor({ReminderEventId(r)}) = 1

\* A pass that started from a lost ledger has submitted an event again,
\* and the sink has found the reminder made for it.
C1_Witness ==
    /\ pc = "record" /\ result = "exists"
    /\ stateFile.status = "missing"
    /\ RemindersFor({request.event_id}) = 1

\* C2: a meeting whose API id and feed UID are different texts, recorded by
\* a completed pass of each variant (both keys are in the ledger), has
\* exactly one reminder, whichever variant ran first.
C2_OneReminderAcrossVariants ==
    \A m \in Meetings :
        (/\ pc = "done"
         /\ m.id # m.uid /\ m.uid # NoText
         /\ m.id \in LedgerKeys(stateFile)
         /\ m.uid \in LedgerKeys(stateFile))
        => RemindersFor({m.id, m.uid}) = 1

\* C3: the sink is not called for an event whose id is in the pass's ledger
\* (as loaded, or as added to earlier in the same pass).
C3_NoSinkCallForLedgerEntry ==
    SinkCalled => request.event_id \notin DOMAIN synced_events.data

\* The ledger was empty when the pass started, and the pass has just skipped
\* an event because an earlier iteration of the same pass filed its id.
C3_Witness ==
    /\ pc = "loop" /\ outcome = "synced"
    /\ LedgerKeys(stateFileBefore) = {}
    /\ KeyOf(variant, event) \in DOMAIN synced_events.data

\* C4: when a pass has run to completion, every event for which the sink
\* answered created or exists has an entry in the saved ledger, with its
\* summary, its start time and the time of the write.
C4_AnsweredEventsAreInSavedLedger ==
    pc = "done" =>
        /\ stateFile.status = "ok"
        /\ \A a \in answers : Answered(a) =>
              /\ a.event_id \in LedgerKeys(stateFile)
              /\ stateFile.data[a.event_id].summary = a.summary
              /\ stateFile.data[a.event_id].start_time = a.start_time
              /\ stateFile.data[a.event_id].synced_at \in 0..clock

\* A completed pass of the feed variant in which the sink answered exists.
C4_Witness ==
    /\ pc = "done" /\ variant = "ical"
    /\ \E a \in answers : a.result = "exists"

\* C5 as stated: an event id for which the sink failed in a pass is in the
\* ledger saved by that pass only if it was in the file before the pass.
C5_FailedIdNotInSavedLedger ==
    pc = "done" =>
        \A a \in answers : ~Answered(a) =>
            (a.event_id \in LedgerKeys(stateFile)
                => a.event_id \in LedgerKeys(stateFileBefore))

\* C5 as amended: an event id for which the sink failed in a pass is in the
\* ledger saved by that pass only if it was in the file before the pass or
\* the sink answered created or exists for the same id in the same pass.
C5_FailedCallWritesNoEntry ==
    pc = "done" =>
        \A a \in answers : ~Answered(a) =>
            (a.event_id \in LedgerKeys(stateFile)
                => \/ a.event_id \in LedgerKeys(stateFileBefore)
                   \/ \E b \in answers : b.event_id = a.event_id /\ Answered(b))

\* A completed pass in which the sink failed for an id that the saved ledger
\* does not hold.
C5_Witness ==
    /\ pc = "done"
    /\ \E a \in answers : ~Answered(a) /\ a.event_id \notin LedgerKeys(stateFile)

\* C6: no pass skips an event that is eligible (timed, not cancelled, start
\* inside the horizon, fire time not passed) and whose id had failed at the
\* sink before the pass, unless the pass has already submitted that id.
C6_FailedEventIsRetried ==
    passed_over = {}

\* The sink has been called again, and has failed again, for an id whose
\* latest answer before this pass was a failure.
C6_Witness ==
    /\ pc = "record" /\ result = ""
    /\ request.event_id \in failedBefore

\* C7: a pass that ended because fetching the calendar failed has logged the
\* failure, has not loaded the ledger, has not saved it and has not called
\* the sink.
C7_FetchFailureTouchesNothing ==
    pc = "aborted" =>
        /\ failure_logged
        /\ ~synced_events.loaded
        /\ stateFile = stateFileBefore
        /\ answers = {}

\* C8: the sink is never called for a cancelled event.
C8_CancelledNeverSubmitted ==
    SinkCalled => event.status # "cancelled"

\* C9: the sink is called only for an event whose start lies in
\* [now, now + horizon).
C9_StartInHalfOpenWindow ==
    SinkCalled =>
        /\ now <= StartOf(variant, event)
        /\ StartOf(variant, event) < now + Horizon

\* C10: whenever the sink is called, the fire time passed to it is the start
\* minus the lead minutes and is not earlier than now; so an event whose fire
\* time is earlier than now is not submitted, even when it starts later.
C10_FireTimeNotBeforeNow ==
    SinkCalled =>
        /\ request.remind_date = StartOf(variant, event) - REMINDER_MINUTES_BEFORE
        /\ request.remind_date >= now

\* An event that starts after now, with a fire time before now, was skipped.
C10_Witness ==
    /\ pc = "loop" /\ outcome = "past"
    /\ StartOf(variant, event) > now
    /\ StartOf(variant, event) - REMINDER_MINUTES_BEFORE < now

\* The second of two passes over the same calendar has ended, the ledger
\* file between them was left as the first pass saved it, and the sink
\* answered exists to whatever the second pass asked.
SecondPassDone ==
    /\ pc = "done" /\ runs = 2
    /\ stateFileBefore = firstSaved
    /\ \A a \in answers : a.result = "exists"

\* C11 as stated: after the second of two passes in succession over the same
\* calendar, in which the sink answered exists to every call, the saved
\* ledger has the event ids it had after the first pass: no entry is lost.
C11_NoEntryLostBySecondPass ==
    SecondPassDone => LedgerKeys(firstSaved) \subseteq LedgerKeys(stateFile)

\* C11 as amended: the ids after the second pass are the ids after the first
\* pass, less the entries that have reached the retention age at the second
\* load, plus the ids the sink answered exists for in the second pass.
C11_IdsKeptButForRetention ==
    SecondPassDone =>
        LedgerKeys(stateFile) =
            {k \in LedgerKeys(firstSaved) :
                LaterThan(firstSaved.data[k], now - Retention)}
            \cup {a.event_id : a \in answers}

\* The second pass has asked the sink about an event and got exists, and
\* the entries the first pass wrote are all there.
C11_Witness ==
    /\ SecondPassDone
    /\ answers # {}
    /\ \E k \in LedgerKeys(firstSaved) : k # KeyOld
    /\ LedgerKeys(firstSaved) \subseteq LedgerKeys(stateFile)

\* What the passes of the glossary would submit from calendar entry m at
\* time t with an empty ledger.
Submittable(v, m, t) ==
    IF v = "api"
    THEN m \in get_upcoming_events(t + Horizon)
         /\ api_filter(ApiEvent(m), EmptyLedger, t) = "ok"
    ELSE ical_filter(IcalEventAt(m, utc_offset), EmptyLedger, t) = "ok"

\* C12: a pass that found the ledger file unreadable or invalid has run to
\* its end, has submitted every event it would submit with an empty ledger,
\* has saved a valid ledger, and has left no event with two reminders.
C12_DamagedLedgerIsNotFatal ==
    (pc \in {"done", "crashed"} /\ stateFileBefore.status \in {"corrupt", "unreadable"})
    => /\ pc = "done"
       /\ stateFile.status = "ok"
       /\ \A i \in 1..Len(calendar) :
             Submittable(variant, calendar[i], now)
             => \E a \in answers : a.event_id = KeyOf(variant, calendar[i])
       /\ \A r \in BagToSet(reminders) : RemindersFor({ReminderEventId(r)}) = 1

\* The same for a file that can be opened and holds no valid ledger.
C12_InvalidLedgerIsNotFatal ==
    (pc \in {"done", "crashed"} /\ stateFileBefore.status = "corrupt")
    => /\ pc = "done"
       /\ stateFile.status = "ok"
       /\ \A i \in 1..Len(calendar) :
             Submittable(variant, calendar[i], now)
             => \E a \in answers : a.event_id = KeyOf(variant, calendar[i])
       /\ \A r \in BagToSet(reminders) : RemindersFor({ReminderEventId(r)}) = 1

\* A pass that started from an invalid file has found, through the sink,
\* the reminder an earlier pass had made.
C12_Witness ==
    /\ pc = "done" /\ stateFileBefore.status = "corrupt"
    /\ \E a \in answers : a.result = "exists"

\* C13: when a pass has ended, no event whose start value does not parse
\* has been submitted; and in a batch that holds such an event, every event
\* that the checks let through and the loaded ledger does not hold has been
\* submitted, and is in the saved ledger if the sink answered created or
\* exists.
C13_MalformedStartIsSkipped ==
    pc = "done" =>
        \A i \in 1..Len(calendar) :
            LET m == calendar[i]
                k == KeyOf(variant, m)
            IN  /\ m.kind = "bad" => \A a \in answers : a.event_id # k
                /\ (/\ \E j \in 1..Len(calendar) : calendar[j].kind = "bad"
                    /\ Submittable(variant, m, now)
                    /\ k \notin DOMAIN load_synced_events(stateFileBefore, now))
                   => \E a \in answers :
                         /\ a.event_id = k
                         /\ Answered(a) => k \in LedgerKeys(stateFile)

\* A pass has ended whose batch held an event with an unparseable start and,
\* after it, an event for which a reminder was created and recorded.
C13_Witness ==
    /\ pc = "done"
    /\ \E i, j \in 1..Len(calendar) :
          /\ i < j
          /\ calendar[i].kind = "bad"
          /\ \E a \in answers :
                /\ a.event_id = KeyOf(variant, calendar[j])
                /\ a.result = "created"
                /\ a.event_id \in LedgerKeys(stateFile)

\* C18: when a pass has ended, the file holds the mapping the pass built,
\* whole; of the entries the file held before, every one whose synced_at is
\* later than now - 2 days is still there, and one that is not (at or before
\* the cutoff, or without synced_at) is there only if the pass wrote it anew.
C18_EvictionOnLoadOnly ==
    pc = "done" =>
        /\ stateFile.data = synced_events.data
        /\ stateFileBefore.status = "ok" =>
              \A k \in LedgerKeys(stateFileBefore) :
                  IF LaterThan(stateFileBefore.data[k], now - Retention)
                  THEN k \in LedgerKeys(stateFile)
                  ELSE k \in LedgerKeys(stateFile)
                       => \E a \in answers : a.event_id = k /\ Answered(a)

\* A pass has ended that found an entry written exactly 2 days before, and
\* the entry is gone.
C18_Witness ==
    /\ pc = "done"
    /\ stateFileBefore.status = "ok"
    /\ \E k \in LedgerKeys(stateFileBefore) :
          /\ "synced_at" \in DOMAIN stateFileBefore.data[k]
          /\ stateFileBefore.data[k].synced_at = now - Retention
          /\ k \notin LedgerKeys(stateFile)

\* C15: when a pass of the feed variant has ended, a feed event whose
\* DTSTART ends in "Z" was handled by the instant it denotes: if it was
\* submitted, the start the pass worked with (and took the fire time from)
\* is the meeting's start on the machine's clock; and if that start is
\* eligible and the ledger did not hold the event, it was submitted.
C15_UtcStartIsTheInstant ==
    (pc = "done" /\ variant = "ical") =>
        \A i \in 1..Len(calendar) :
            LET m == calendar[i] IN
            (m.z /\ m.kind = "timed") =>
                /\ \A a \in answers :
                      a.event_id = m.uid => a.start_time = m.start
                /\ (/\ Eligible(m, now)
                    /\ m.uid \notin DOMAIN load_synced_events(stateFileBefore, now))
                   => \E a \in answers : a.event_id = m.uid

\* The same on a machine whose local time is UTC.
C15_HoldsWithoutOffset ==
    utc_offset = 0 => C15_UtcStartIsTheInstant

\* C16: from its start to the end of its loop, and when it is stopped or
\* gives up on the way, a pass leaves the ledger file as it found it; the
\* file is written once, when the loop is over, with the mapping the pass
\* has built.
C16_LedgerWrittenOnceAtEnd ==
    /\ pc \in {"connect", "fetch", "list", "loop", "create", "record",
               "crashed", "aborted"}
       => stateFile = stateFileBefore
    /\ pc = "done"
       => stateFile.status = "ok" /\ stateFile.data = synced_events.data

\* Between two sink calls of a pass: the first has made a reminder and its
\* entry is in the pass's mapping, the second has just been answered, and
\* the file has no entry yet.
C16_Witness ==
    /\ pc = "record"
    /\ \E a \in answers : a.result = "created" /\ a.event_id \in DOMAIN synced_events.data
    /\ LedgerKeys(stateFile) = {}

\* C17: the sink answers exists for an event id only when the list holds a
\* reminder that was created for that id.
C17_ExistsMeansOwnReminder ==
    (pc = "record" /\ result = "exists")
    => \E r \in BagToSet(reminders) : ReminderEventId(r) = request.event_id

\* Both processes have loaded the ledger before either has saved it, and
\* both have ended.
BothDoneAfterOverlap ==
    /\ \A p \in Procs : running[p].pc = "done"
    /\ Len(order) = 4
    /\ order[1][1] = "load" /\ order[2][1] = "load"

FirstSaver == order[3][2]
LastSaver == order[4][2]

\* C19: when two passes have both loaded the ledger before either saved it
\* and both have ended, the file holds the mapping of the pass that saved
\* last, and none of the entries that only the other pass had.
C19_LastWriterWins ==
    BothDoneAfterOverlap =>
        /\ stateFile = save_synced_events(running[LastSaver].synced_events)
        /\ \A k \in DOMAIN running[FirstSaver].synced_events :
              k \notin DOMAIN running[LastSaver].synced_events
              => k \notin LedgerKeys(stateFile)

\* Both have ended after such an overlap, and the pass that saved first had
\* recorded an event that the other had not.
C19_Witness ==
    /\ BothDoneAfterOverlap
    /\ \E k \in DOMAIN running[FirstSaver].synced_events :
          k \notin DOMAIN running[LastSaver].synced_events

\* C14: main() starts at most one presentation thread per event id, however
\* many polls and alerts lie in between.
C14_OneAlertPerEvent ==
    \A id \in DOMAIN dispatched : CopiesIn(id, dispatched) <= 1

\* Not a claim of its own: as long as alerted_events has never been emptied,
\* no id is dispatched twice.
C14_HoldsBelowTheCap ==
    (\A id \in DOMAIN dispatched : id \in alerted_events) => C14_OneAlertPerEvent

\* C20: when main() starts a presentation thread the event's id is in
\* alerted_events already, and no step of a presentation thread or of a
\* snooze timer changes alerted_events.
C20_PollLoopIsOnlyWriter ==
    [][ /\ (by' \in {"alert", "timer"}) => alerted_events' = alerted_events
        /\ (by' = "poll" /\ windows' > windows)
             => poll.events[poll.i].id \in alerted_events ]_vars

\* A snoozed alert is on the screen again while the set is not empty.
C20_Witness ==
    /\ by = "timer"
    /\ windows > 0
    /\ alerted_events # {}
    /\ BagCardinality(dispatched) > 0

\* C21: each time the poll loop goes to sleep, alerted_events holds at most
\* 50 ids, also after a poll in which the fetch or an event raised.
C21_AtMostFiftyAtSleep ==
    poll.pc = "sleep" => Cardinality(alerted_events) <= MAX_ALERTED

\* Not a claim of its own: the bound holds at the end of a poll whose loop
\* has come to its end.
C21_HoldsAfterCleanPoll ==
    (poll.pc = "sleep" /\ poll.events # <<>>
        /\ \A k \in 1..Len(poll.events) : poll.events[k].kind # "bad")
    => Cardinality(alerted_events) <= MAX_ALERTED

\* C25: when a poll ends, no event of its batch is left that the loop would
\* alert for, also when an event of the batch has a start that does not
\* parse.
C25_BadStartHidesNoEvent ==
    poll.pc = "sleep"
    => \A k \in 1..Len(poll.events) :
          poll.events[k].kind = "timed"
          => alert_check(poll.events[k], alerted_events, poll.now) # "alert"

\* The calendar holds no start that does not parse and no fetch has failed.
AllGoesWell ==
    /\ poll.failures = 0
    /\ \A k \in 1..Len(agenda) : agenda[k].kind # "bad"

SecondsUntil(e) == e.start - poll.now

\* A timed event of the calendar that started more than the lead time after
\* the scheduler began, and has started by now.
Due(e) ==
    /\ e.kind = "timed"
    /\ e.start > REMINDER_MINUTES_BEFORE * 60
    /\ poll.now > e.start

\* C24: with every fetch successful and every start parseable, each timed
\* event that starts more than the lead time after the scheduler began has
\* had a presentation thread started by the time it starts; and every
\* presentation thread is started for an event that is between 0 and the
\* lead time away.
C24_AlertedInTheWindow ==
    /\ [](AllGoesWell =>
            \A k \in 1..Len(agenda) :
                Due(agenda[k]) => CopiesIn(agenda[k].id, dispatched) >= 1)
    /\ [][ (by' = "poll" /\ windows' > windows)
             => /\ 0 <= SecondsUntil(poll.events[poll.i])
                /\ SecondsUntil(poll.events[poll.i]) <= REMINDER_MINUTES_BEFORE * 60 ]_vars

\* Meetings that start between two polls have started and were alerted for.
C24_Witness ==
    /\ AllGoesWell
    /\ agenda = Offbeat
    /\ \A k \in 1..Len(agenda) :
          Due(agenda[k]) /\ CopiesIn(agenda[k].id, dispatched) = 1

\* C22: a pass makes no sink call for an event id that STATE_FILE held when
\* the pass began, whether the load kept the entry or dropped it for its
\* age: an entry old enough to be dropped belongs to an event that has
\* started.
C22_NoSinkCallOnceRecorded ==
    pc = "done" => \A a \in answers : a.event_id \notin LedgerKeys(stateFileBefore)

\* A pass has dropped, for its age, the entry of an event that is still in
\* the calendar, and has made no sink call for it.
C22_Witness ==
    /\ pc = "done"
    /\ \E i \in 1..Len(calendar) :
          /\ calendar[i].kind = "timed"
          /\ KeyOf(variant, calendar[i]) \in LedgerKeys(stateFileBefore)
          /\ KeyOf(variant, calendar[i]) \notin DOMAIN synced_events.data
          /\ \A a \in answers : a.event_id # KeyOf(variant, calendar[i])

\* C23: no step of a pass takes a reminder from the list or changes one, and
\* the sink call for an event id that has a reminder leaves the list as it
\* is, whatever start the event has by then.
C23_RemindersStayAsCreated ==
    [][ /\ \A r \in BagToSet(reminders) :
              CopiesIn(r, reminders') >= CopiesIn(r, reminders)
        /\ (pc = "create"
               /\ \E r \in BagToSet(reminders) : ReminderEventId(r) = request.event_id)
             => reminders' = reminders ]_vars

\* The sink has answered already_exists for an event that now has another
\* start than the one its reminder was made for.
C23_Witness ==
    /\ pc = "record"
    /\ result = "exists"
    /\ \E r \in BagToSet(reminders) :
          /\ ReminderEventId(r) = request.event_id
          /\ r.date # request.remind_date
====
